---- MODULE Spec2Model ----
(***************************************************************************)
(* State-machine model of the SiliconFlow key scanner.                     *)
(*                                                                         *)
(*   Spec       GitHubScanner (app/hajimi_king.py): run_scan,              *)
(*              process_search_result, validate_and_save_key and the       *)
(*              sinks, with process kill and restart.                      *)
(*   SpecStore  FileManager / Checkpoint (utils/file_manager.py):          *)
(*              load_checkpoint, save_checkpoint, append_scanned_sha,      *)
(*              with I/O failures, process kill and restart.               *)
(*   SpecResume the scanner of Spec started beside a checkpoint loaded     *)
(*              from disk.                                                 *)
(*   SpecSearch GitHubScanner.search_github_code: the page loop.           *)
(*   SpecExtract GitHubScanner.extract_api_keys on every content of the    *)
(*              bound.                                                     *)
(*                                                                         *)
(* Strings that the code inspects (identifiers written to the line file,   *)
(* file paths) are sequences of one-character strings, so that strip(),    *)
(* startswith('#'), lower() and substring tests are computed.              *)
(***************************************************************************)
EXTENDS Integers, Sequences, FiniteSets, TLC

\* ------------------------------------------------------------------ bounds
MaxHits == 2
MaxFaults == 1
MaxOps == 5
per_page == 2
NumTokens == 2
MaxTokens == 3
MaxQueryLen == 4
MaxRequests == 12

\* --------------------------------------------------------- program constants
MinKeyLen == 25
max_pages == 10

VARIABLES
  \* ---- GitHubScanner (app/hajimi_king.py)
  scanned_shas,          \* self.scanned_shas
  sha_file,              \* data_path / scanned_shas_file: sequence of lines
  file_path_blacklist,   \* self.file_path_blacklist
  conn_db,               \* table api_keys: api_key -> verdict columns of its row
  key_files,             \* the four local outputs: class -> api_key -> lines written, this run
  pc,                    \* position of the scanner process
  qi,                    \* index of the query run_scan is at
  results_left,          \* how many items of search_results are not yet processed
  item,                  \* the item process_search_result is working on
  api_keys,              \* candidates of the item not yet validated
  validation_result,     \* last value returned by validate_key
  last_return,           \* which return of process_search_result was taken last
  faults,                \* I/O faults injected so far
  \* ---- observation of the scanner's requests
  last_probe,            \* the response the last probe received
  fetches,               \* sha -> content downloads that succeeded, this run
  item_probes,           \* api_key -> probes sent while the current item is processed
  item_requests,         \* api_key -> vendor requests while the current item is processed
  item_rejected,         \* keys answered 401 or 403 while the current item is processed
  \* ---- FileManager / Checkpoint (utils/file_manager.py)
  checkpoint,            \* module global `checkpoint`
  scanned_shas_file,     \* FileManager.scanned_shas_file: "absent" or its lines
  checkpoint_file,       \* checkpoint.json: "absent", "torn" or the dumped dict
  fm_pc,                 \* position inside load_checkpoint / save_checkpoint
  fm_arg,                \* the Checkpoint passed to the running save_checkpoint
  fm_ret,                \* who called save_checkpoint: "caller", "load" or "start"
  fm_failed,             \* an I/O error was raised in the running save_checkpoint
  fm_ops,                \* operations started so far
  \* ---- observation of the store
  ever_persisted,        \* identifiers seen in the store when an operation returned
  durable_at_kill,       \* identifiers in the store before the operation killed last
  shas_before,           \* identifiers in the store before the running save began
  ckpt_before,           \* checkpoint.json before the running save began
  fm_hist,               \* what the last completed store operations were
  \* ---- GitHubScanner.search_github_code
  page,                  \* local `page`
  results_len,           \* len(results)
  current_token_index,   \* self.current_token_index
  response_status,       \* status of the last answer, 0 for an exception or none
  sg_pc,                 \* "loop" inside the while loop, "returned" outside the call
  results,               \* local `results`: for each match the page it came with
  requests,              \* page requests sent by the call so far
  last_tokens,           \* the tokens get_current_token returned last, newest last
  \* ---- GitHubScanner.extract_api_keys
  content,               \* the argument: a sequence of tokens
  unique_keys,           \* the list returned
  ex_pc,                 \* "call" before the call, "returned" after it
  \* ---- main(): the environment and the start of the process
  env_github_tokens,     \* os.getenv('GITHUB_TOKENS', '').split(','): the items
  env_date_range_days,   \* os.getenv('DATE_RANGE_DAYS', '730'): a number or another text
  github_tokens,         \* self.github_tokens
  date_range_days,       \* self.date_range_days
  main_pc,               \* position of main()
  main_qi,               \* index of the query run_scan is at
  main_requests,         \* search requests sent so far
  main_error,            \* the exception that ended the scanner, "none" if none
  exit_status,           \* "running", or the exit status of the process
  \* ---- validate_and_save_key: the two save calls on one result
  result,                \* the ScanResult and its rate_limited flag
  insert_ok,             \* the INSERT of save_to_database succeeds
  open_fails,            \* the open of save_to_files that fails, "none" if none
  sink_pc,               \* "call" before the two calls, "returned" after them
  \* ---- the configured queries and the strings that stand for them
  query_line,            \* a line of the queries file
  other_line,            \* another line of the queries file
  query_key,             \* the query load_queries makes of query_line
  other_key,             \* the query load_queries makes of other_line
  rekeyed,               \* the query load_queries makes of a line holding query_key
  qk_pc,                 \* "file" before the lines are loaded, "loaded" after
  \* ---- the two SiliconFlowValidator classes on one probe result
  probe_key,             \* the api_key handed to both validate_key methods
  probe_response,        \* what the vendor answers to the probe
  probe_build,           \* the HTTP library raises a RequestException on a bad body
  scanner_verdict,       \* what validate_key of app/hajimi_king.py gives
  standalone_verdict,    \* what validate_key of app/siliconflow_validator.py gives
  called                 \* the validators that have been called

scanVars == <<scanned_shas, sha_file, file_path_blacklist, conn_db, key_files, pc, qi,
              results_left, item, api_keys, validation_result, last_return, faults,
              last_probe, fetches, item_probes, item_requests, item_rejected>>
storeVars == <<checkpoint, scanned_shas_file, checkpoint_file, fm_pc, fm_arg, fm_ret,
               fm_failed, fm_ops, ever_persisted, durable_at_kill, shas_before,
               ckpt_before, fm_hist>>
searchVars == <<page, results_len, current_token_index, response_status, sg_pc,
                results, requests, last_tokens>>
extractVars == <<content, unique_keys, ex_pc>>
mainVars == <<env_github_tokens, env_date_range_days, github_tokens, date_range_days,
              main_pc, main_qi, main_requests, main_error, exit_status>>
sinkVars == <<result, insert_ok, open_fails, sink_pc>>
queryVars == <<query_line, other_line, query_key, other_key, rekeyed, qk_pc>>
validatorVars == <<probe_key, probe_response, probe_build, scanner_verdict,
                   standalone_verdict, called>>
vars == <<scanVars, storeVars, searchVars, extractVars, mainVars, sinkVars, queryVars,
          validatorVars>>

\* ------------------------------------------------------------------ strings
Range(s) == {s[i] : i \in 1..Len(s)}

\* str.strip(): leading and trailing blanks removed
RECURSIVE LStrip(_)
LStrip(s) == IF s # <<>> /\ Head(s) = " " THEN LStrip(Tail(s)) ELSE s
RECURSIVE RStrip(_)
RStrip(s) == IF s # <<>> /\ s[Len(s)] = " " THEN RStrip(SubSeq(s, 1, Len(s) - 1)) ELSE s
Strip(s) == RStrip(LStrip(s))

\* str.lower() on the characters of the model
LowerChar(c) == IF c = "D" THEN "d" ELSE IF c = "X" THEN "x" ELSE c
Lower(s) == [i \in 1..Len(s) |-> LowerChar(s[i])]

\* `sub in s` for strings
Contains(s, sub) ==
  \E i \in 1..(Len(s) + 1) :
     /\ i + Len(sub) - 1 <= Len(s)
     /\ SubSeq(s, i, i + Len(sub) - 1) = sub

\* order of str comparison, for sorted()
CharRank(c) == CASE c = " " -> 0 [] c = "#" -> 1 [] c = "a" -> 2 [] c = "b" -> 3 [] OTHER -> 4
RECURSIVE StrLess(_, _)
StrLess(s, t) ==
  IF t = <<>> THEN FALSE
  ELSE IF s = <<>> THEN TRUE
  ELSE IF CharRank(Head(s)) # CharRank(Head(t)) THEN CharRank(Head(s)) < CharRank(Head(t))
  ELSE StrLess(Tail(s), Tail(t))
RECURSIVE Sorted(_)
Sorted(S) ==
  IF S = {} THEN <<>>
  ELSE LET m == CHOOSE x \in S : \A y \in S \ {x} : StrLess(x, y)
       IN <<m>> \o Sorted(S \ {m})

\* ------------------------------------------------------- the scanned world
ShaA == <<"a">>
ShaB == <<"b">>
ShaAB == <<"a", "b">>
SHAs == {ShaA, ShaB, ShaAB}

KeyA == <<"sk-", "A">>
KeyB == <<"sk-", "B">>
KeyShort == <<"sk-", "c">>
Keys == {KeyA, KeyB}
KeyLen(k) == IF k = KeyShort THEN 23 ELSE 48

Paths == {<<"x">>, <<"D", "x">>}
\* the configured FILE_PATH_BLACKLIST, split and lowercased
Blacklist == << <<"d">>, <<"x", "x">> >>

\* the items of FILE_PATH_BLACKLIST as split(',') returns them: at least one
\* item (one empty item for an empty value), each one empty, blank or a
\* substring in either case, with or without a blank around it
BlacklistItems == {<<>>, <<" ">>, <<"d">>, <<"D", " ">>, <<"x", "x">>}
BlacklistEnvs ==
  {<<a>> : a \in BlacklistItems} \cup {<<a, b>> : a \in BlacklistItems, b \in BlacklistItems}

\* __init__: [item.strip().lower() for item in blacklist_str.split(',')]
ParseBlacklist(items) == [i \in 1..Len(items) |-> Lower(Strip(items[i]))]

Hits == [sha : SHAs, path : Paths]
NoItem == [sha |-> <<>>, path |-> <<>>]

\* what api_key_pattern.findall returns on the blob behind an identifier
MatchesOf(sha) ==
  CASE sha = ShaA -> <<KeyA, KeyB, KeyA>>
    [] sha = ShaB -> <<KeyA>>
    [] OTHER -> <<KeyShort>>

\* item['repository']['updated_at'], on the clock of last_scan_time: the
\* repository of blob a was pushed at time 1, the others at time 2
PushedAt(it) == IF it.sha = ShaA THEN 1 ELSE 2

\* GitHubScanner.load_queries: the configured queries
queries == <<"q1", "q2">>

\* ------------------------------------------------- pure functions (scanner)
\* GitHubScanner.load_scanned_shas: the stripped non-empty lines of the file
LoadScannedShasScanner(lines) ==
  {Strip(lines[i]) : i \in {j \in 1..Len(lines) : Strip(lines[j]) # <<>>}}

\* should_skip_file testing the path as written, without lower()
ShouldSkipFileCaseSensitive(blacklist, file_path) ==
  \E i \in 1..Len(blacklist) : Contains(file_path, blacklist[i])

\* GitHubScanner.should_skip_file
ShouldSkipFile(blacklist, file_path) ==
  \E i \in 1..Len(blacklist) : Contains(Lower(file_path), blacklist[i])

\* extract_api_keys without the `key not in seen` test
RECURSIVE ExtractFromNoSeen(_, _)
ExtractFromNoSeen(matches, seen) ==
  IF matches = <<>> THEN <<>>
  ELSE LET key == Head(matches)
       IN IF KeyLen(key) >= MinKeyLen
          THEN <<key>> \o ExtractFromNoSeen(Tail(matches), seen \cup {key})
          ELSE ExtractFromNoSeen(Tail(matches), seen)

\* GitHubScanner.extract_api_keys: first occurrences, long enough, in order
RECURSIVE ExtractFrom(_, _)
ExtractFrom(matches, seen) ==
  IF matches = <<>> THEN <<>>
  ELSE LET key == Head(matches)
       IN IF key \notin seen /\ KeyLen(key) >= MinKeyLen
          THEN <<key>> \o ExtractFrom(Tail(matches), seen \cup {key})
          ELSE ExtractFrom(Tail(matches), seen)
ExtractApiKeys(matches) == ExtractFrom(matches, {})

\* ---- the vendor's answers to a probe
Statuses == {200, 401, 403, 429, 500}
HttpResponses == [kind : {"http"}, status : Statuses, json : {TRUE}]
                   \cup {[kind |-> "http", status |-> 200, json |-> FALSE]}
NoResponse == [kind |-> "none", status |-> 0, json |-> FALSE]
TimeoutResponse == [kind |-> "timeout", status |-> 0, json |-> FALSE]
ConnErrResponse == [kind |-> "connection_error", status |-> 0, json |-> FALSE]
ProbeResponses == HttpResponses \cup {TimeoutResponse, ConnErrResponse}

Verdict(valid, msg, limited) ==
  [raised |-> FALSE, sent |-> TRUE, is_valid |-> valid, error_message |-> msg,
   rate_limited |-> limited]
NoVerdict == [raised |-> FALSE, sent |-> FALSE, is_valid |-> FALSE,
              error_message |-> <<>>, rate_limited |-> FALSE]

\* SiliconFlowValidator.validate_key. A 200 answer is decoded with
\* response.json() inside the try block: on an undecodable body the decode
\* error is a RequestException in some builds of the HTTP library (caught by
\* the last handler) and a plain ValueError in others (leaves validate_key).
ValidateKey(api_key, resp, decode_error_caught) ==
  IF api_key[1] # "sk-"
  THEN [NoVerdict EXCEPT !.error_message = <<"Invalid key format">>]
  ELSE IF resp.kind = "timeout" THEN Verdict(FALSE, <<"Request timeout">>, FALSE)
  ELSE IF resp.kind = "connection_error" THEN Verdict(FALSE, <<"Request failed">>, FALSE)
  ELSE IF resp.status = 200
       THEN IF resp.json THEN Verdict(TRUE, <<>>, FALSE)
            ELSE IF decode_error_caught THEN Verdict(FALSE, <<"Request failed">>, FALSE)
            ELSE [Verdict(FALSE, <<>>, FALSE) EXCEPT !.raised = TRUE]
  ELSE IF resp.status = 401 THEN Verdict(FALSE, <<"Unauthorized: Invalid API key">>, FALSE)
  ELSE IF resp.status = 429 THEN Verdict(TRUE, <<"Rate limited">>, TRUE)
  ELSE IF resp.status = 403 THEN Verdict(FALSE, <<"Forbidden: Access denied">>, FALSE)
  ELSE Verdict(FALSE, <<"HTTP", resp.status>>, FALSE)

\* the probe results put to both validators: the answers above, three more
\* statuses without a branch of their own, and a key without the sk- prefix
KeyNoPrefix == <<"pk-", "A">>
ProbeKeys == Keys \cup {KeyNoPrefix}
OtherStatuses == {400, 404, 503}
ValidatorResponses ==
  ProbeResponses \cup [kind : {"http"}, status : OtherStatuses, json : {TRUE}]

\* what the validate_key of the module returns: no rate_limited key
StandaloneVerdict(valid, msg) ==
  [raised |-> FALSE, sent |-> TRUE, is_valid |-> valid, error_message |-> msg]
NoStandaloneVerdict ==
  [raised |-> FALSE, sent |-> FALSE, is_valid |-> FALSE, error_message |-> <<>>]

\* the validate_key of the module with 429 taken for a rejection
ValidateKeyStandaloneLimitedInvalid(api_key, resp, decode_error_caught) ==
  IF api_key[1] # "sk-"
  THEN [NoStandaloneVerdict EXCEPT !.error_message = <<"Invalid key format">>]
  ELSE IF resp.kind \in {"timeout", "connection_error"}
  THEN StandaloneVerdict(FALSE, <<"Request failed">>)
  ELSE IF resp.status = 200
       THEN IF resp.json THEN StandaloneVerdict(TRUE, <<>>)
            ELSE IF decode_error_caught THEN StandaloneVerdict(FALSE, <<"Request failed">>)
            ELSE [StandaloneVerdict(FALSE, <<>>) EXCEPT !.raised = TRUE]
  ELSE IF resp.status = 401 THEN StandaloneVerdict(FALSE, <<"Invalid API key">>)
  ELSE StandaloneVerdict(FALSE, <<"HTTP", resp.status>>)

\* SiliconFlowValidator.validate_key of app/siliconflow_validator.py: no
\* branch for 403, one handler (RequestException) for a timeout, a connection
\* error and, in the builds that raise it there, an undecodable 200 body
ValidateKeyStandalone(api_key, resp, decode_error_caught) ==
  IF api_key[1] # "sk-"
  THEN [NoStandaloneVerdict EXCEPT !.error_message = <<"Invalid key format">>]
  ELSE IF resp.kind \in {"timeout", "connection_error"}
  THEN StandaloneVerdict(FALSE, <<"Request failed">>)
  ELSE IF resp.status = 200
       THEN IF resp.json THEN StandaloneVerdict(TRUE, <<>>)
            ELSE IF decode_error_caught THEN StandaloneVerdict(FALSE, <<"Request failed">>)
            ELSE [StandaloneVerdict(FALSE, <<>>) EXCEPT !.raised = TRUE]
  ELSE IF resp.status = 401 THEN StandaloneVerdict(FALSE, <<"Invalid API key">>)
  ELSE IF resp.status = 429 THEN StandaloneVerdict(TRUE, <<"Rate limited">>)
  ELSE StandaloneVerdict(FALSE, <<"HTTP", resp.status>>)

\* ---- sinks
FileClasses == {"valid_key", "valid_key_detail", "rate_limited_key", "rate_limited_key_detail"}
NoRow == [present |-> FALSE, is_valid |-> FALSE, rate_limited |-> FALSE]

\* GitHubScanner.save_to_database: INSERT OR REPLACE keyed by api_key; an
\* error is logged and swallowed
SaveToDatabase(db, api_key, is_valid, rate_limited, ok) ==
  IF ok
  THEN [db EXCEPT ![api_key] = [present |-> TRUE, is_valid |-> is_valid,
                                rate_limited |-> rate_limited]]
  ELSE db

\* save_to_files without its early return for a key that is neither valid
\* nor rate-limited
FilePrefixesNoEarlyReturn(is_valid, rate_limited) ==
  IF is_valid /\ ~rate_limited THEN <<"valid_key", "valid_key_detail">>
  ELSE <<"rate_limited_key", "rate_limited_key_detail">>

\* save_to_files testing is_valid alone in its first branch
FilePrefixesValidFirst(is_valid, rate_limited) ==
  IF is_valid THEN <<"valid_key", "valid_key_detail">>
  ELSE IF rate_limited THEN <<"rate_limited_key", "rate_limited_key_detail">>
  ELSE <<>>

\* the pair of prefixes save_to_files selects, <<>> when it returns early
FilePrefixes(is_valid, rate_limited) ==
  IF is_valid /\ ~rate_limited THEN <<"valid_key", "valid_key_detail">>
  ELSE IF rate_limited THEN <<"rate_limited_key", "rate_limited_key_detail">>
  ELSE <<>>

\* GitHubScanner.save_to_files: key file first, then detail file; an I/O
\* error at either open is logged and ends the function
SaveToFiles(files, api_key, is_valid, rate_limited, fail) ==
  LET pre == FilePrefixes(is_valid, rate_limited)
      add(f, c) == [f EXCEPT ![c][api_key] = @ + 1]
  IN IF pre = <<>> \/ fail = "key_file" THEN files
     ELSE IF fail = "detail_file" THEN add(files, pre[1])
     ELSE add(add(files, pre[1]), pre[2])

\* validate_and_save_key with an error of the insert leaving the function
SaveResultInsertRaises(db, files, api_key, is_valid, rate_limited, ok, fail) ==
  [db |-> SaveToDatabase(db, api_key, is_valid, rate_limited, ok),
   files |-> IF ok THEN SaveToFiles(files, api_key, is_valid, rate_limited, fail)
             ELSE files]

\* validate_and_save_key, its two save calls: save_to_database, then
\* save_to_files, each of which swallows its own errors
SaveResult(db, files, api_key, is_valid, rate_limited, ok, fail) ==
  [db |-> SaveToDatabase(db, api_key, is_valid, rate_limited, ok),
   files |-> SaveToFiles(files, api_key, is_valid, rate_limited, fail)]

\* ------------------------------------------------------ GitHubScanner steps
ZeroKeys == [k \in Keys |-> 0]

\* outcomes of an I/O operation: it succeeds, or fails while the fault budget lasts
MayFail == IF faults < MaxFaults THEN {TRUE, FALSE} ELSE {TRUE}

\* GitHubScanner.save_scanned_sha: the set first, then one appended line;
\* a failed append is logged and swallowed
SaveScannedSha(sha) ==
  /\ scanned_shas' = scanned_shas \cup {sha}
  /\ \E write_ok \in MayFail :
       /\ sha_file' = IF write_ok THEN Append(sha_file, sha) ELSE sha_file
       /\ faults' = IF write_ok THEN faults ELSE faults + 1

\* run_scan: one iteration of `for query in queries` up to the search result.
\* search_github_code returns between 0 and MaxHits items; which items they
\* are is drawn when the item loop reaches them.
SearchGithubCode ==
  /\ pc = "query"
  /\ qi <= Len(queries)
  /\ \E n \in 0..MaxHits :
       IF n = 0
       THEN /\ qi' = qi + 1
            /\ UNCHANGED <<pc, results_left>>
       ELSE /\ results_left' = n
            /\ pc' = "items"
            /\ UNCHANGED qi
  /\ last_return' = "none"
  /\ item' = NoItem
  /\ UNCHANGED <<scanned_shas, sha_file, file_path_blacklist, conn_db, key_files,
                 api_keys, validation_result, faults, last_probe, fetches,
                 item_probes, item_requests, item_rejected>>
  /\ UNCHANGED <<storeVars, searchVars, extractVars, mainVars, sinkVars, queryVars, validatorVars>>

\* run_scan: the item loop of a query is exhausted, sleep and take the next query
NextQuery ==
  /\ pc = "items"
  /\ results_left = 0
  /\ qi' = qi + 1
  /\ pc' = "query"
  /\ UNCHANGED <<scanned_shas, sha_file, file_path_blacklist, conn_db, key_files,
                 results_left, item, api_keys, validation_result, last_return, faults,
                 last_probe, fetches, item_probes, item_requests, item_rejected>>
  /\ UNCHANGED <<storeVars, searchVars, extractVars, mainVars, sinkVars, queryVars, validatorVars>>

\* process_search_result at a fault, dropping the items that remain
ReturnEarlyDropRest(why) ==
  /\ last_return' = why
  /\ results_left' = IF why \in {"no_content", "error"} THEN 0 ELSE results_left - 1
  /\ UNCHANGED <<pc, api_keys>>

\* process_search_result returns 0 before any key is validated
ReturnEarly(why) ==
  /\ last_return' = why
  /\ results_left' = results_left - 1
  /\ UNCHANGED <<pc, api_keys>>

\* the download and the extraction, an absent content marked as scanned
FetchAndExtractMarkAbsent(it) ==
  \E fetched \in {"content", "absent", "raise"} :
    IF fetched = "raise"
    THEN /\ faults < MaxFaults
         /\ faults' = faults + 1
         /\ ReturnEarly("error")
         /\ UNCHANGED <<scanned_shas, sha_file, fetches>>
    ELSE IF fetched = "absent"
    THEN /\ SaveScannedSha(it.sha)
         /\ ReturnEarly("no_content")
         /\ UNCHANGED fetches
    ELSE /\ fetches' = [fetches EXCEPT ![it.sha] = @ + 1]
         /\ IF ExtractApiKeys(MatchesOf(it.sha)) = <<>>
            THEN /\ SaveScannedSha(it.sha)
                 /\ ReturnEarly("no_keys")
            ELSE /\ api_keys' = ExtractApiKeys(MatchesOf(it.sha))
                 /\ pc' = "keys"
                 /\ UNCHANGED <<scanned_shas, sha_file, results_left, last_return, faults>>

\* the download and the extraction, the identifier recorded before the key loop
FetchAndExtractMarkFirst(it) ==
  \E fetched \in {"content", "absent", "raise"} :
    IF fetched = "raise"
    THEN /\ faults < MaxFaults
         /\ faults' = faults + 1
         /\ ReturnEarly("error")
         /\ UNCHANGED <<scanned_shas, sha_file, fetches>>
    ELSE IF fetched = "absent"
    THEN /\ ReturnEarly("no_content")
         /\ UNCHANGED <<scanned_shas, sha_file, fetches, faults>>
    ELSE /\ fetches' = [fetches EXCEPT ![it.sha] = @ + 1]
         /\ SaveScannedSha(it.sha)
         /\ IF ExtractApiKeys(MatchesOf(it.sha)) = <<>>
            THEN ReturnEarly("no_keys")
            ELSE /\ api_keys' = ExtractApiKeys(MatchesOf(it.sha))
                 /\ pc' = "keys"
                 /\ UNCHANGED <<results_left, last_return>>

\* process_search_result after its two filters: the download (content, or
\* None on an error, a status other than 200 or an empty body) and the
\* extraction; an exception raised on the way is caught by the handler of
\* the function, which returns 0
FetchAndExtract(it) ==
  \E fetched \in {"content", "absent", "raise"} :
    IF fetched = "raise"
    THEN /\ faults < MaxFaults
         /\ faults' = faults + 1
         /\ ReturnEarly("error")
         /\ UNCHANGED <<scanned_shas, sha_file, fetches>>
    ELSE IF fetched = "absent"
    THEN /\ ReturnEarly("no_content")
         /\ UNCHANGED <<scanned_shas, sha_file, fetches, faults>>
    ELSE /\ fetches' = [fetches EXCEPT ![it.sha] = @ + 1]
         /\ IF ExtractApiKeys(MatchesOf(it.sha)) = <<>>
            THEN /\ SaveScannedSha(it.sha)
                 /\ ReturnEarly("no_keys")
            ELSE /\ api_keys' = ExtractApiKeys(MatchesOf(it.sha))
                 /\ pc' = "keys"
                 /\ UNCHANGED <<scanned_shas, sha_file, results_left, last_return, faults>>

\* process_search_result, duplicate test after the path test
ProcessItemPathFirst(it) ==
  IF ShouldSkipFile(file_path_blacklist, it.path)
  THEN /\ ReturnEarly("blacklisted")
       /\ UNCHANGED <<scanned_shas, sha_file, fetches, faults>>
  ELSE IF it.sha \in scanned_shas
  THEN /\ ReturnEarly("sha_duplicate")
       /\ UNCHANGED <<scanned_shas, sha_file, fetches, faults>>
  ELSE FetchAndExtract(it)

\* process_search_result without the duplicate test
ProcessItemNoDuplicateTest(it) ==
  IF ShouldSkipFile(file_path_blacklist, it.path)
  THEN /\ ReturnEarly("blacklisted")
       /\ UNCHANGED <<scanned_shas, sha_file, fetches, faults>>
  ELSE FetchAndExtract(it)

\* process_search_result recording the identifier of a skipped artifact
ProcessItemMarkSkipped(it) ==
  IF it.sha \in scanned_shas
  THEN /\ ReturnEarly("sha_duplicate")
       /\ UNCHANGED <<scanned_shas, sha_file, fetches, faults>>
  ELSE IF ShouldSkipFile(file_path_blacklist, it.path)
  THEN /\ SaveScannedSha(it.sha)
       /\ ReturnEarly("blacklisted")
       /\ UNCHANGED fetches
  ELSE FetchAndExtract(it)

\* process_search_result on item `it`, from its entry to the first key or to
\* an early return: duplicate test, path test, download, extraction
ProcessItem(it) ==
  IF it.sha \in scanned_shas
  THEN /\ ReturnEarly("sha_duplicate")
       /\ UNCHANGED <<scanned_shas, sha_file, fetches, faults>>
  ELSE IF ShouldSkipFile(file_path_blacklist, it.path)
  THEN /\ ReturnEarly("blacklisted")
       /\ UNCHANGED <<scanned_shas, sha_file, fetches, faults>>
  ELSE FetchAndExtract(it)

\* run_scan: `for item in search_results` calls process_search_result
ProcessSearchResult ==
  /\ pc = "items"
  /\ results_left > 0
  /\ \E it \in Hits :
       /\ item' = it
       /\ ProcessItem(it)
  /\ item_probes' = ZeroKeys
  /\ item_requests' = ZeroKeys
  /\ item_rejected' = {}
  /\ validation_result' = NoVerdict
  /\ last_probe' = NoResponse
  /\ UNCHANGED <<file_path_blacklist, conn_db, key_files, qi>>
  /\ UNCHANGED <<storeVars, searchVars, extractVars, mainVars, sinkVars, queryVars, validatorVars>>

FaultCount(f) ==
  (IF f[1] THEN 1 ELSE 0) + (IF f[2] THEN 0 ELSE 1) + (IF f[3] = "none" THEN 0 ELSE 1)

\* the faults that can hit one validate_and_save_key call after verdict v:
\* <<check_key_quota raises, the insert succeeds, the file open that fails>>
SinkFaults(v) ==
  LET all == IF v.raised \/ ~v.sent THEN {<<FALSE, TRUE, "none">>}
             ELSE IF FilePrefixes(v.is_valid, v.rate_limited) = <<>>
                  THEN {<<FALSE, db_ok, "none">> : db_ok \in BOOLEAN}
                  ELSE {<<q, db_ok, f>> : q \in BOOLEAN, db_ok \in BOOLEAN,
                                          f \in {"none", "key_file", "detail_file"}}
  IN {f \in all : faults + FaultCount(f) <= MaxFaults}

\* validate_and_save_key reaches save_to_database and save_to_files unless
\* validate_key or check_key_quota raised
Recorded(v, quota_raises) == ~v.raised /\ ~(v.is_valid /\ quota_raises)

\* check_key_quota called for every candidate
QuotaAlways(v) == IF v.raised THEN 0 ELSE 1

\* check_key_quota, one more vendor request, is called for valid keys only
QuotaRequests(v) == IF ~v.raised /\ v.is_valid THEN 1 ELSE 0

\* the builds that differ on resp: those that raise a RequestException on an
\* undecodable body (TRUE) and those that raise a ValueError (FALSE)
DecodeBuilds(resp) ==
  IF resp.kind = "http" /\ resp.status = 200 /\ ~resp.json THEN BOOLEAN ELSE {TRUE}

\* process_search_result: one iteration of `for api_key in api_keys`, that is
\* one call of validate_and_save_key, up to the sleep that follows it
ValidateAndSaveKey ==
  /\ pc = "keys"
  /\ api_keys # <<>>
  /\ LET api_key == Head(api_keys)
     IN \E resp \in ProbeResponses : \E decode_error_caught \in DecodeBuilds(resp) :
          LET v == ValidateKey(api_key, resp, decode_error_caught)
              n == IF v.sent THEN 1 ELSE 0
          IN \E fs \in SinkFaults(v) :
               LET saved == Recorded(v, fs[1])
               IN /\ last_probe' = resp
                  /\ validation_result' = v
                  /\ faults' = faults + FaultCount(fs)
                  /\ item_probes' = [item_probes EXCEPT ![api_key] = @ + n]
                  /\ item_requests' =
                       [item_requests EXCEPT ![api_key] = @ + n + QuotaRequests(v)]
                  /\ item_rejected' =
                       IF resp.kind = "http" /\ resp.status \in {401, 403}
                       THEN item_rejected \cup {api_key} ELSE item_rejected
                  /\ conn_db' = IF saved
                                THEN SaveResult(conn_db, key_files, api_key, v.is_valid,
                                                v.rate_limited, fs[2], fs[3]).db
                                ELSE conn_db
                  /\ key_files' = IF saved
                                  THEN SaveResult(conn_db, key_files, api_key, v.is_valid,
                                                  v.rate_limited, fs[2], fs[3]).files
                                  ELSE key_files
  /\ api_keys' = Tail(api_keys)
  /\ UNCHANGED <<scanned_shas, sha_file, file_path_blacklist, pc, qi, results_left,
                 item, last_return, fetches>>
  /\ UNCHANGED <<storeVars, searchVars, extractVars, mainVars, sinkVars, queryVars, validatorVars>>

\* process_search_result: the key loop is over, save_scanned_sha and return
FinishItem ==
  /\ pc = "keys"
  /\ api_keys = <<>>
  /\ SaveScannedSha(item.sha)
  /\ last_return' = "valid_count"
  /\ results_left' = results_left - 1
  /\ pc' = "items"
  /\ validation_result' = NoVerdict
  /\ last_probe' = NoResponse
  /\ item_probes' = ZeroKeys
  /\ item_requests' = ZeroKeys
  /\ item_rejected' = {}
  /\ UNCHANGED <<file_path_blacklist, conn_db, key_files, qi, item, api_keys, fetches>>
  /\ UNCHANGED <<storeVars, searchVars, extractVars, mainVars, sinkVars, queryVars, validatorVars>>

\* the memory of a process that is not running
NoProcess ==
  /\ scanned_shas' = {}
  /\ qi' = 1
  /\ results_left' = 0
  /\ item' = NoItem
  /\ api_keys' = <<>>
  /\ validation_result' = NoVerdict
  /\ last_return' = "none"
  /\ last_probe' = NoResponse
  /\ fetches' = [s \in SHAs |-> 0]
  /\ item_probes' = ZeroKeys
  /\ item_requests' = ZeroKeys
  /\ item_rejected' = {}

\* run_scan: the query loop is exhausted; cleanup(), main() returns and the
\* process ends
ScanCompleted ==
  /\ pc = "query"
  /\ qi > Len(queries)
  /\ pc' = "done"
  /\ NoProcess
  /\ UNCHANGED <<sha_file, file_path_blacklist, conn_db, key_files, faults>>
  /\ UNCHANGED <<storeVars, searchVars, extractVars, mainVars, sinkVars, queryVars, validatorVars>>

\* the process is killed; what is in memory is lost
Kill ==
  /\ pc \in {"query", "items", "keys"}
  /\ pc' = "dead"
  /\ NoProcess
  /\ UNCHANGED <<sha_file, file_path_blacklist, conn_db, key_files, faults>>
  /\ UNCHANGED <<storeVars, searchVars, extractVars, mainVars, sinkVars, queryVars, validatorVars>>

\* an interrupt signal: KeyboardInterrupt (or the cancellation asyncio.run
\* makes of it) leaves run_scan wherever it is, through `except
\* KeyboardInterrupt` and `finally: cleanup()`, and main() returns
Interrupt ==
  /\ pc \in {"query", "items", "keys"}
  /\ pc' = "interrupted"
  /\ NoProcess
  /\ UNCHANGED <<sha_file, file_path_blacklist, conn_db, key_files, faults>>
  /\ UNCHANGED <<storeVars, searchVars, extractVars, mainVars, sinkVars, queryVars, validatorVars>>

\* main() again: GitHubScanner.__init__ reloads the identifiers and run_scan
\* starts over. key_files observes the lines the running process has written.
Restart ==
  /\ pc \in {"dead", "done", "interrupted"}
  /\ pc' = "query"
  /\ scanned_shas' = LoadScannedShasScanner(sha_file)
  /\ key_files' = [c \in FileClasses |-> ZeroKeys]
  /\ UNCHANGED <<sha_file, file_path_blacklist, conn_db, qi, results_left, item, api_keys,
                 validation_result, last_return, faults, last_probe, fetches,
                 item_probes, item_requests, item_rejected>>
  /\ UNCHANGED <<storeVars, searchVars, extractVars, mainVars, sinkVars, queryVars, validatorVars>>

\* ------------------------------------------- GitHubScanner.extract_api_keys
\* A content is a sequence of pieces separated by blanks: key-shaped strings
\* (what api_key_pattern matches), a placeholder comment, other text.
PlaceholderHere == <<" # YOUR_KEY_HERE">>
PlainText == <<"text">>
Markers == {PlaceholderHere}
Tokens == {KeyA, KeyB, KeyShort, PlaceholderHere, PlainText}
Contents == UNION {[1..n -> Tokens] : n \in 0..MaxTokens}

\* api_key_pattern.findall(content): the pieces that start with sk-, in order
IsKeyShaped(t) == t[1] = "sk-"
FindAll(c) == SelectSeq(c, IsKeyShaped)

\* extract_api_keys(content) is called and returns
ExtractApiKeysCall ==
  /\ ex_pc = "call"
  /\ unique_keys' = IF content = <<>> THEN <<>> ELSE ExtractApiKeys(FindAll(content))
  /\ ex_pc' = "returned"
  /\ UNCHANGED content
  /\ UNCHANGED <<scanVars, storeVars, searchVars, mainVars, sinkVars, queryVars, validatorVars>>

\* ----------------------------------------- GitHubScanner.search_github_code
\* the statuses the search API answers with that the code tells apart, and 500
\* for every other one
SearchStatuses == {200, 403, 422, 429, 500}

\* get_current_token without the modulo
GetCurrentTokenNoWrap(index) ==
  [token |-> index, index |-> index + 1]

\* GitHubScanner.get_current_token: the token at the index is returned and
\* the index moves on, back to 0 behind the last token
GetCurrentToken(index) ==
  [token |-> index, index |-> (index + 1) % NumTokens]

\* the last NumTokens tokens returned, after token t was returned
Window(tokens, t) ==
  LET all == Append(tokens, t)
  IN IF Len(all) > NumTokens THEN Tail(all) ELSE all

\* search_github_code is called: results = [], page = 1, the loop is entered
StartSearch ==
  /\ sg_pc = "returned"
  /\ page' = 1
  /\ results_len' = 0
  /\ results' = <<>>
  /\ requests' = 0
  /\ response_status' = 0
  /\ sg_pc' = "loop"
  /\ UNCHANGED <<current_token_index, last_tokens>>
  /\ UNCHANGED <<scanVars, storeVars, extractVars, mainVars, sinkVars, queryVars, validatorVars>>

\* the 200 branch moving to the next page behind a short page as well
OnPageNoShortTest(n) ==
  IF n = 0
  THEN /\ sg_pc' = "returned"
       /\ UNCHANGED <<page, results_len, results>>
  ELSE /\ results_len' = results_len + n
       /\ results' = results \o [i \in 1..n |-> page]
       /\ page' = page + 1
       /\ sg_pc' = IF page + 1 <= max_pages THEN "loop" ELSE "returned"

\* the 200 branch on a page of n items: an empty page leaves the loop, the
\* items are appended, a short page leaves the loop, a full page moves to
\* the next page, which is requested while page <= max_pages
OnPage(n) ==
  IF n = 0
  THEN /\ sg_pc' = "returned"
       /\ UNCHANGED <<page, results_len, results>>
  ELSE /\ results_len' = results_len + n
       /\ results' = results \o [i \in 1..n |-> page]
       /\ IF n < per_page
          THEN /\ sg_pc' = "returned"
               /\ UNCHANGED page
          ELSE /\ page' = page + 1
               /\ sg_pc' = IF page + 1 <= max_pages THEN "loop" ELSE "returned"

\* one iteration of `while page <= max_pages`: get_current_token rotates the
\* token, the page is requested, and the answer decides between the next
\* page, the same page again, and leaving the loop. Status 0 stands for an
\* exception (request or decoding), which is logged and leaves the loop.
SearchRequest ==
  /\ sg_pc = "loop"
  /\ requests < MaxRequests
  /\ requests' = requests + 1
  /\ current_token_index' = GetCurrentToken(current_token_index).index
  /\ last_tokens' = Window(last_tokens, GetCurrentToken(current_token_index).token)
  /\ \E status \in SearchStatuses \cup {0} :
       /\ response_status' = status
       /\ IF status = 200
          THEN \E n \in 0..per_page : OnPage(n)
          ELSE IF status = 403
          THEN UNCHANGED <<page, results_len, results, sg_pc>>
          ELSE /\ sg_pc' = "returned"
               /\ UNCHANGED <<page, results_len, results>>
  /\ UNCHANGED <<scanVars, storeVars, extractVars, mainVars, sinkVars, queryVars, validatorVars>>

\* ------------------------------------------------- Checkpoint / FileManager
Queries == {"q1", "q2"}
NoTime == <<>>

\* Checkpoint(): the dataclass defaults
NewCheckpoint ==
  [last_scan_time |-> NoTime, scanned_shas |-> {}, processed_queries |-> {},
   wait_send_balancer |-> {}, wait_send_gpt_load |-> {}]

\* list(a_set): the elements in some order
RECURSIVE ListOf(_)
ListOf(S) ==
  IF S = {} THEN <<>>
  ELSE LET x == CHOOSE y \in S : TRUE IN <<x>> \o ListOf(S \ {x})

\* Checkpoint.to_dict: everything but scanned_shas, the sets as lists
ToDict(cp) ==
  [last_scan_time |-> cp.last_scan_time,
   processed_queries |-> ListOf(cp.processed_queries),
   wait_send_balancer |-> ListOf(cp.wait_send_balancer),
   wait_send_gpt_load |-> ListOf(cp.wait_send_gpt_load)]

\* from_dict reading neither wait_send list
FromDictNoPending(data) ==
  [last_scan_time |-> data.last_scan_time,
   scanned_shas |-> {},
   processed_queries |-> Range(data.processed_queries),
   wait_send_balancer |-> {},
   wait_send_gpt_load |-> {}]

\* Checkpoint.from_dict: scanned_shas is left empty, the lists become sets
FromDict(data) ==
  [last_scan_time |-> data.last_scan_time,
   scanned_shas |-> {},
   processed_queries |-> Range(data.processed_queries),
   wait_send_balancer |-> Range(data.wait_send_balancer),
   wait_send_gpt_load |-> Range(data.wait_send_gpt_load)]

\* the checkpoints a caller holds after setting last_scan_time and filling
\* the two wait_send sets with keys
PendingCheckpoints ==
  {[last_scan_time |-> t, scanned_shas |-> s, processed_queries |-> {},
    wait_send_balancer |-> b, wait_send_gpt_load |-> g] :
     t \in {NoTime, <<0>>}, s \in {{}, {ShaA}}, b \in SUBSET Keys, g \in SUBSET Keys}

\* the files: checkpoint.json is absent, torn (truncated or half written, so
\* that json.load raises) or holds a dumped dict
NoDict == ToDict(NewCheckpoint)
AbsentJson == [state |-> "absent", data |-> NoDict]
TornJson == [state |-> "torn", data |-> NoDict]
Json(data) == [state |-> "ok", data |-> data]
AbsentLines == [exists |-> FALSE, lines |-> <<>>]
Lines(ls) == [exists |-> TRUE, lines |-> ls]

CommentLine == <<"#", " ", "a">>
\* the four lines save_scanned_shas writes before the identifiers
Header == <<CommentLine, CommentLine, CommentLine, <<>>>>

\* FileManager.load_scanned_shas without the comment test
LoadScannedShasNoComment(file) ==
  IF file.exists
  THEN {Strip(file.lines[i]) :
          i \in {j \in 1..Len(file.lines) : Strip(file.lines[j]) # <<>>}}
  ELSE {}

\* FileManager.load_scanned_shas: stripped lines that are neither empty nor
\* comments; nothing when the file is missing
LoadScannedShas(file) ==
  IF file.exists
  THEN {Strip(file.lines[i]) :
          i \in {j \in 1..Len(file.lines) :
                   /\ Strip(file.lines[j]) # <<>>
                   /\ Head(Strip(file.lines[j])) # "#"}}
  ELSE {}

\* what save_scanned_shas writes for a set
ShaFileContent(shas) == Header \o Sorted(shas)

\* what load_checkpoint returns when checkpoint.json exists
LoadExisting(json, file) ==
  [(IF json.state = "ok" THEN FromDict(json.data) ELSE NewCheckpoint)
     EXCEPT !.scanned_shas = LoadScannedShas(file)]

\* -------------------------------------------------------- FileManager steps
\* an operation returns to its caller (load_checkpoint ends by reading the
\* identifier file into the checkpoint it returns)
Return(ok) ==
  /\ fm_pc' = "idle"
  /\ checkpoint' = IF fm_ret \in {"load", "start"}
                   THEN [NewCheckpoint EXCEPT
                           !.scanned_shas = LoadScannedShas(scanned_shas_file)]
                   ELSE checkpoint
  /\ fm_hist' = IF fm_ret \in {"load", "start"} THEN "loaded"
                ELSE IF ok THEN "saved" ELSE "other"
  /\ ever_persisted' = ever_persisted \cup LoadScannedShas(scanned_shas_file)
  /\ fm_failed' = FALSE

\* save_checkpoint is entered with argument cp
EnterSave(cp, caller) ==
  /\ fm_arg' = cp
  /\ fm_ret' = caller
  /\ fm_pc' = "shas_open"
  /\ fm_failed' = FALSE
  /\ shas_before' = LoadScannedShas(scanned_shas_file)
  /\ ckpt_before' = checkpoint_file

\* `checkpoint = file_manager.load_checkpoint()`, at process start or by a
\* later caller: load_checkpoint up to its return, or up to the
\* save_checkpoint it calls when checkpoint.json does not exist
LoadCheckpoint ==
  /\ fm_pc \in {"boot", "dead", "idle"}
  /\ fm_ops < MaxOps
  /\ fm_ops' = fm_ops + 1
  /\ IF checkpoint_file.state # "absent"
     THEN /\ checkpoint' = LoadExisting(checkpoint_file, scanned_shas_file)
          /\ fm_pc' = "idle"
          /\ fm_hist' = IF fm_hist = "saved" THEN "saved_loaded" ELSE "loaded"
          /\ UNCHANGED <<fm_arg, fm_ret, fm_failed, shas_before, ckpt_before>>
     ELSE /\ EnterSave(NewCheckpoint, IF fm_pc = "idle" THEN "load" ELSE "start")
          /\ UNCHANGED <<checkpoint, fm_hist>>
  /\ UNCHANGED <<scanned_shas_file, checkpoint_file, ever_persisted, durable_at_kill>>
  /\ UNCHANGED <<scanVars, searchVars, extractVars, mainVars, sinkVars, queryVars, validatorVars>>

\* a caller invokes save_checkpoint(checkpoint)
SaveCheckpoint ==
  /\ fm_pc = "idle"
  /\ fm_ops < MaxOps
  /\ fm_ops' = fm_ops + 1
  /\ EnterSave(checkpoint, "caller")
  /\ fm_hist' = "other"
  /\ UNCHANGED <<checkpoint, scanned_shas_file, checkpoint_file, ever_persisted,
                 durable_at_kill>>
  /\ UNCHANGED <<scanVars, searchVars, extractVars, mainVars, sinkVars, queryVars, validatorVars>>

\* save_scanned_shas: open(scanned_shas_file, "w") truncates the file, or raises
ShasOpen ==
  /\ fm_pc = "shas_open"
  /\ \E ok \in BOOLEAN :
       IF ok
       THEN /\ scanned_shas_file' = Lines(<<>>)
            /\ fm_pc' = "shas_write"
            /\ UNCHANGED fm_failed
       ELSE /\ fm_pc' = "ckpt_open"
            /\ fm_failed' = TRUE
            /\ UNCHANGED scanned_shas_file
  /\ UNCHANGED <<checkpoint, checkpoint_file, fm_arg, fm_ret, fm_ops, ever_persisted,
                 durable_at_kill, shas_before, ckpt_before, fm_hist>>
  /\ UNCHANGED <<scanVars, searchVars, extractVars, mainVars, sinkVars, queryVars, validatorVars>>

\* save_scanned_shas: the header and the sorted identifiers are written and the
\* file is closed, or a write raises after n lines
ShasWrite ==
  /\ fm_pc = "shas_write"
  /\ LET all == ShaFileContent(fm_arg.scanned_shas)
     IN \E n \in 0..Len(all) :
          /\ scanned_shas_file' = Lines(SubSeq(all, 1, n))
          /\ fm_failed' = (n < Len(all))
  /\ fm_pc' = "ckpt_open"
  /\ UNCHANGED <<checkpoint, checkpoint_file, fm_arg, fm_ret, fm_ops, ever_persisted,
                 durable_at_kill, shas_before, ckpt_before, fm_hist>>
  /\ UNCHANGED <<scanVars, searchVars, extractVars, mainVars, sinkVars, queryVars, validatorVars>>

\* save_checkpoint: open(checkpoint_file, "w") truncates checkpoint.json, or
\* raises, which ends save_checkpoint
CkptOpen ==
  /\ fm_pc = "ckpt_open"
  /\ \E ok \in BOOLEAN :
       IF ok
       THEN /\ checkpoint_file' = TornJson
            /\ fm_pc' = "ckpt_write"
            /\ UNCHANGED <<checkpoint, fm_hist, ever_persisted, fm_failed>>
       ELSE /\ Return(FALSE)
            /\ UNCHANGED checkpoint_file
  /\ UNCHANGED <<scanned_shas_file, fm_arg, fm_ret, fm_ops, durable_at_kill, shas_before,
                 ckpt_before>>
  /\ UNCHANGED <<scanVars, searchVars, extractVars, mainVars, sinkVars, queryVars, validatorVars>>

\* save_checkpoint: json.dump and close, then the load_checkpoint of line 246,
\* whose result is bound to a local name and dropped; or the dump raises
CkptWrite ==
  /\ fm_pc = "ckpt_write"
  /\ \E ok \in BOOLEAN :
       /\ checkpoint_file' = IF ok THEN Json(ToDict(fm_arg)) ELSE TornJson
       /\ Return(ok /\ ~fm_failed)
  /\ UNCHANGED <<scanned_shas_file, fm_arg, fm_ret, fm_ops, durable_at_kill, shas_before,
                 ckpt_before>>
  /\ UNCHANGED <<scanVars, searchVars, extractVars, mainVars, sinkVars, queryVars, validatorVars>>

\* FileManager.append_scanned_sha: one line appended; an error is logged
AppendScannedSha ==
  /\ fm_pc = "idle"
  /\ fm_ops < MaxOps
  /\ fm_ops' = fm_ops + 1
  /\ \E sha \in SHAs, ok \in BOOLEAN :
       /\ scanned_shas_file' = IF ok THEN Lines(Append(scanned_shas_file.lines, sha))
                               ELSE scanned_shas_file
       /\ ever_persisted' = ever_persisted \cup LoadScannedShas(scanned_shas_file')
  /\ fm_hist' = "other"
  /\ UNCHANGED <<checkpoint, checkpoint_file, fm_pc, fm_arg, fm_ret, fm_failed,
                 durable_at_kill, shas_before, ckpt_before>>
  /\ UNCHANGED <<scanVars, searchVars, extractVars, mainVars, sinkVars, queryVars, validatorVars>>

\* Checkpoint.add_scanned_sha on the global checkpoint
AddScannedSha ==
  /\ fm_pc = "idle"
  /\ fm_ops < MaxOps
  /\ fm_ops' = fm_ops + 1
  /\ \E sha \in SHAs \cup {<<>>} :
       checkpoint' = IF sha # <<>>
                     THEN [checkpoint EXCEPT !.scanned_shas = @ \cup {sha}]
                     ELSE checkpoint
  /\ fm_hist' = IF fm_hist = "saved" THEN "saved" ELSE "other"
  /\ UNCHANGED <<scanned_shas_file, checkpoint_file, fm_pc, fm_arg, fm_ret, fm_failed,
                 ever_persisted, durable_at_kill, shas_before, ckpt_before>>
  /\ UNCHANGED <<scanVars, searchVars, extractVars, mainVars, sinkVars, queryVars, validatorVars>>

\* Checkpoint.add_processed_query on the global checkpoint
AddProcessedQuery ==
  /\ fm_pc = "idle"
  /\ fm_ops < MaxOps
  /\ fm_ops' = fm_ops + 1
  /\ \E q \in Queries :
       checkpoint' = [checkpoint EXCEPT !.processed_queries = @ \cup {q}]
  /\ fm_hist' = IF fm_hist = "saved" THEN "saved" ELSE "other"
  /\ UNCHANGED <<scanned_shas_file, checkpoint_file, fm_pc, fm_arg, fm_ret, fm_failed,
                 ever_persisted, durable_at_kill, shas_before, ckpt_before>>
  /\ UNCHANGED <<scanVars, searchVars, extractVars, mainVars, sinkVars, queryVars, validatorVars>>

\* Checkpoint.update_scan_time: the clock is read
UpdateScanTime ==
  /\ fm_pc = "idle"
  /\ fm_ops < MaxOps
  /\ fm_ops' = fm_ops + 1
  /\ checkpoint' = [checkpoint EXCEPT !.last_scan_time = <<fm_ops>>]
  /\ fm_hist' = IF fm_hist = "saved" THEN "saved" ELSE "other"
  /\ UNCHANGED <<scanned_shas_file, checkpoint_file, fm_pc, fm_arg, fm_ret, fm_failed,
                 ever_persisted, durable_at_kill, shas_before, ckpt_before>>
  /\ UNCHANGED <<scanVars, searchVars, extractVars, mainVars, sinkVars, queryVars, validatorVars>>

\* the process is killed: the global checkpoint is lost, the files stay as
\* they are at that instant
KillStore ==
  /\ fm_pc \notin {"boot", "dead"}
  /\ fm_pc' = "dead"
  /\ checkpoint' = NewCheckpoint
  /\ durable_at_kill' = IF fm_pc = "idle" THEN LoadScannedShas(scanned_shas_file)
                        ELSE shas_before
  /\ fm_hist' = IF fm_hist \in {"saved", "saved_loaded"} THEN "saved" ELSE "other"
  /\ UNCHANGED <<scanned_shas_file, checkpoint_file, fm_arg, fm_ret, fm_failed, fm_ops,
                 ever_persisted, shas_before, ckpt_before>>
  /\ UNCHANGED <<scanVars, searchVars, extractVars, mainVars, sinkVars, queryVars, validatorVars>>

\* ------------------------------------- the two validators on one probe
\* validate_key of app/hajimi_king.py is called on the probe
ScannerValidateKey ==
  /\ "scanner" \notin called
  /\ called' = called \cup {"scanner"}
  /\ scanner_verdict' = ValidateKey(probe_key, probe_response, probe_build)
  /\ UNCHANGED <<probe_key, probe_response, probe_build, standalone_verdict>>
  /\ UNCHANGED <<scanVars, storeVars, searchVars, extractVars, mainVars, sinkVars, queryVars>>

\* validate_key of app/siliconflow_validator.py is called on the probe
StandaloneValidateKey ==
  /\ "standalone" \notin called
  /\ called' = called \cup {"standalone"}
  /\ standalone_verdict' = ValidateKeyStandalone(probe_key, probe_response, probe_build)
  /\ UNCHANGED <<probe_key, probe_response, probe_build, scanner_verdict>>
  /\ UNCHANGED <<scanVars, storeVars, searchVars, extractVars, mainVars, sinkVars, queryVars>>

\* ------------------------------------------- the save calls on one result
\* the verdicts validate_key can return, as <<is_valid, rate_limited>>
VerdictFlags == {<<TRUE, FALSE>>, <<TRUE, TRUE>>, <<FALSE, FALSE>>}
Results == {[api_key |-> k, is_valid |-> f[1], rate_limited |-> f[2]] :
              k \in Keys, f \in VerdictFlags}
NoResult == [api_key |-> KeyA, is_valid |-> FALSE, rate_limited |-> FALSE]

\* the rows table api_keys can hold for a key
Rows == {NoRow} \cup {[present |-> TRUE, is_valid |-> f[1], rate_limited |-> f[2]] :
                        f \in VerdictFlags}

\* validate_and_save_key after validate_key and check_key_quota have
\* returned: save_to_database(result, rate_limited), then
\* save_to_files(result, rate_limited), then `return result.is_valid`
SaveCalls ==
  /\ sink_pc = "call"
  /\ LET saved == SaveResult(conn_db, key_files, result.api_key, result.is_valid,
                             result.rate_limited, insert_ok, open_fails)
     IN /\ conn_db' = saved.db
        /\ key_files' = saved.files
  /\ sink_pc' = "returned"
  /\ UNCHANGED <<result, insert_ok, open_fails>>
  /\ UNCHANGED <<scanned_shas, sha_file, file_path_blacklist, pc, qi, results_left, item,
                 api_keys, validation_result, last_return, faults, last_probe, fetches,
                 item_probes, item_requests, item_rejected>>
  /\ UNCHANGED <<storeVars, searchVars, extractVars, mainVars, queryVars, validatorVars>>

\* ------------------------------------------------------ configured queries
\* the lines of the queries file that give a query: up to MaxQueryLen
\* characters, not blank (comment lines give none either)
RECURSIVE LinesOfLen(_)
LinesOfLen(n) ==
  IF n = 0 THEN {<<>>}
  ELSE {Append(l, c) : l \in LinesOfLen(n - 1), c \in {" ", "a", "b"}}
QueryLines == {l \in UNION {LinesOfLen(n) : n \in 1..MaxQueryLen} : Strip(l) # <<>>}

\* str.split(): the blank-separated tokens of a string
RECURSIVE SplitFrom(_, _)
SplitFrom(s, cur) ==
  LET done == IF cur = <<>> THEN <<>> ELSE <<cur>>
  IN IF s = <<>> THEN done
     ELSE IF Head(s) = " " THEN done \o SplitFrom(Tail(s), <<>>)
     ELSE SplitFrom(Tail(s), Append(cur, Head(s)))
Split(s) == SplitFrom(s, <<>>)

\* ' '.join(tokens)
RECURSIVE Join(_)
Join(tokens) ==
  IF tokens = <<>> THEN <<>>
  ELSE IF Len(tokens) = 1 THEN tokens[1]
  ELSE tokens[1] \o <<" ">> \o Join(Tail(tokens))

\* a line read with its trailing blank kept when there are two of them
QueryKeyDropOneBlank(line) ==
  LET l == LStrip(line)
  IN IF l # <<>> /\ l[Len(l)] = " " THEN SubSeq(l, 1, Len(l) - 1) ELSE l

\* the string that stands for a configured query: load_queries appends
\* line.strip(), run_scan passes it on as it is, and
\* Checkpoint.add_processed_query would store the string it is given
QueryKey(line) == Strip(line)

\* load_queries on the two lines, and on a line holding the first query
LoadQueries ==
  /\ qk_pc = "file"
  /\ query_key' = QueryKey(query_line)
  /\ other_key' = QueryKey(other_line)
  /\ rekeyed' = QueryKey(QueryKey(query_line))
  /\ qk_pc' = "loaded"
  /\ UNCHANGED <<query_line, other_line>>
  /\ UNCHANGED <<scanVars, storeVars, searchVars, extractVars, mainVars, sinkVars, validatorVars>>

\* ------------------------------------------------------------------- main()
\* the items of GITHUB_TOKENS as split(',') returns them: at least one item,
\* each one empty, blank, a token, or a token behind a blank
TokenItems == {<<>>, <<" ">>, <<"t">>, <<" ", "t">>}
TokenEnvs == {<<a>> : a \in TokenItems} \cup {<<a, b>> : a \in TokenItems, b \in TokenItems}

\* the values of DATE_RANGE_DAYS: the default, a text that is no number, and
\* numbers of days in and out of the range of dates
EnvNumber(n) == [numeric |-> TRUE, value |-> n]
EnvText == [numeric |-> FALSE, value |-> 0]
DateRangeEnvs == {EnvText} \cup {EnvNumber(n) : n \in {730, -1, 0, 800000, 1000000000}}

\* datetime.now() as a proleptic ordinal (day 1 is 0001-01-01), the last
\* day datetime can hold, and the largest timedelta in days
Today == 739923
MaxOrdinal == 3652059
MaxDelta == 999999999

\* __init__: [token.strip() for token in tokens if token.strip()]
RECURSIVE StripTokens(_)
StripTokens(items) ==
  IF items = <<>> THEN <<>>
  ELSE IF Strip(Head(items)) = <<>> THEN StripTokens(Tail(items))
  ELSE <<Strip(Head(items))>> \o StripTokens(Tail(items))

\* int(os.getenv('DATE_RANGE_DAYS', '730')) raises ValueError on a text
\* that is no number
IntRaises(text) == ~text.numeric

\* search_github_code: datetime.now() - timedelta(days=self.date_range_days)
\* raises OverflowError when the delta or the resulting date is out of range
DateFilterRaises(days) ==
  \/ days > MaxDelta
  \/ days < -MaxDelta
  \/ Today - days < 1
  \/ Today - days > MaxOrdinal

\* main(): an exception of GitHubScanner() is logged and sys.exit(1) follows
ExitFailed(error) ==
  /\ main_pc' = "exited"
  /\ main_error' = error
  /\ exit_status' = "exit 1"

\* main(): scanner = GitHubScanner(). The tokens are parsed and tested
\* first, then DATE_RANGE_DAYS is converted, then the directories and the
\* database are created under DATA_PATH, which fails on a path that cannot
\* be written
Construct ==
  /\ main_pc = "start"
  /\ github_tokens' = StripTokens(env_github_tokens)
  /\ IF github_tokens' = <<>>
     THEN /\ ExitFailed("ValueError: GITHUB_TOKENS environment variable is required")
          /\ UNCHANGED date_range_days
     ELSE IF IntRaises(env_date_range_days)
     THEN /\ ExitFailed("ValueError: invalid literal for int()")
          /\ UNCHANGED date_range_days
     ELSE /\ date_range_days' = env_date_range_days.value
          /\ \E data_path_ok \in BOOLEAN :
               IF data_path_ok
               THEN /\ main_pc' = "run_scan"
                    /\ UNCHANGED <<main_error, exit_status>>
               ELSE ExitFailed("OSError")
  /\ UNCHANGED <<env_github_tokens, env_date_range_days, main_qi, main_requests>>
  /\ UNCHANGED <<scanVars, storeVars, searchVars, extractVars, sinkVars, queryVars, validatorVars>>

\* run_scan: load_queries (a file that cannot be read gives the default
\* queries) and the entry of the query loop
RunScanStart ==
  /\ main_pc = "run_scan"
  /\ main_pc' = "pass"
  /\ main_qi' = 1
  /\ UNCHANGED <<env_github_tokens, env_date_range_days, github_tokens, date_range_days,
                 main_requests, main_error, exit_status>>
  /\ UNCHANGED <<scanVars, storeVars, searchVars, extractVars, sinkVars, queryVars, validatorVars>>

\* run_scan: one query. search_github_code computes the date filter before
\* its loop and outside its try block; an exception there reaches `except
\* Exception` of run_scan, which logs it, and after cleanup() run_scan and
\* main() return. Otherwise the search sends its first request.
RunScanQuery ==
  /\ main_pc = "pass"
  /\ main_qi <= Len(queries)
  /\ IF DateFilterRaises(date_range_days)
     THEN /\ main_pc' = "exited"
          /\ main_error' = "OverflowError"
          /\ exit_status' = "exit 0"
          /\ UNCHANGED <<main_qi, main_requests>>
     ELSE /\ main_requests' = main_requests + 1
          /\ main_qi' = main_qi + 1
          /\ UNCHANGED <<main_pc, main_error, exit_status>>
  /\ UNCHANGED <<env_github_tokens, env_date_range_days, github_tokens, date_range_days>>
  /\ UNCHANGED <<scanVars, storeVars, searchVars, extractVars, sinkVars, queryVars, validatorVars>>

\* run_scan: the query loop is exhausted, cleanup(), main() returns
RunScanEnd ==
  /\ main_pc = "pass"
  /\ main_qi > Len(queries)
  /\ main_pc' = "exited"
  /\ exit_status' = "exit 0"
  /\ UNCHANGED <<env_github_tokens, env_date_range_days, github_tokens, date_range_days,
                 main_qi, main_requests, main_error>>
  /\ UNCHANGED <<scanVars, storeVars, searchVars, extractVars, sinkVars, queryVars, validatorVars>>

\* ------------------------------------------------------------ specifications
InitScan ==
  /\ scanned_shas = {}
  /\ sha_file = <<>>
  /\ file_path_blacklist = Blacklist
  /\ conn_db = [k \in Keys |-> NoRow]
  /\ key_files = [c \in FileClasses |-> ZeroKeys]
  /\ pc = "query"
  /\ qi = 1
  /\ results_left = 0
  /\ item = NoItem
  /\ api_keys = <<>>
  /\ validation_result = NoVerdict
  /\ last_return = "none"
  /\ last_probe = NoResponse
  /\ fetches = [s \in SHAs |-> 0]
  /\ faults = 0
  /\ item_probes = ZeroKeys
  /\ item_requests = ZeroKeys
  /\ item_rejected = {}

InitStore ==
  /\ checkpoint = NewCheckpoint
  /\ scanned_shas_file = AbsentLines
  /\ checkpoint_file = AbsentJson
  /\ fm_pc = "boot"
  /\ fm_arg = NewCheckpoint
  /\ fm_ret = "caller"
  /\ fm_failed = FALSE
  /\ fm_ops = 0
  /\ ever_persisted = {}
  /\ durable_at_kill = {}
  /\ shas_before = {}
  /\ ckpt_before = AbsentJson
  /\ fm_hist = "other"

\* no probe has been put to the two validators
InitValidators ==
  /\ probe_key = KeyA
  /\ probe_response = NoResponse
  /\ probe_build = TRUE
  /\ scanner_verdict = NoVerdict
  /\ standalone_verdict = NoStandaloneVerdict
  /\ called = {}

\* any key of the bound and any answer to its probe, under either build of
\* the HTTP library
InitProbe ==
  /\ probe_key \in ProbeKeys
  /\ probe_response \in ValidatorResponses
  /\ probe_build \in DecodeBuilds(probe_response)
  /\ scanner_verdict = NoVerdict
  /\ standalone_verdict = NoStandaloneVerdict
  /\ called = {}

\* no search_github_code call is running
InitSearch ==
  /\ page = 1
  /\ results_len = 0
  /\ current_token_index = 0
  /\ response_status = 0
  /\ sg_pc = "returned"
  /\ results = <<>>
  /\ requests = 0
  /\ last_tokens = <<>>

\* no extract_api_keys call has been made
InitExtract ==
  /\ content = <<>>
  /\ unique_keys = <<>>
  /\ ex_pc = "call"

\* a process about to start in an environment with one token and the defaults
InitMain ==
  /\ env_github_tokens = << <<"t">> >>
  /\ env_date_range_days = EnvNumber(730)
  /\ github_tokens = <<>>
  /\ date_range_days = 0
  /\ main_pc = "start"
  /\ main_qi = 0
  /\ main_requests = 0
  /\ main_error = "none"
  /\ exit_status = "running"

\* no save call under observation
InitSinks ==
  /\ result = NoResult
  /\ insert_ok = TRUE
  /\ open_fails = "none"
  /\ sink_pc = "returned"

\* no queries file under observation
InitQuery ==
  /\ query_line = <<"a">>
  /\ other_line = <<"a">>
  /\ query_key = <<"a">>
  /\ other_key = <<"a">>
  /\ rekeyed = <<"a">>
  /\ qk_pc = "loaded"

Init == InitScan /\ InitStore /\ InitSearch /\ InitValidators /\ InitExtract /\ InitMain /\ InitSinks
          /\ InitQuery

Next ==
  \/ SearchGithubCode
  \/ NextQuery
  \/ ScanCompleted
  \/ ProcessSearchResult
  \/ ValidateAndSaveKey
  \/ FinishItem
  \/ Kill
  \/ Interrupt
  \/ Restart

Spec == Init /\ [][Next]_vars

NextStore ==
  \/ LoadCheckpoint
  \/ SaveCheckpoint
  \/ ShasOpen
  \/ ShasWrite
  \/ CkptOpen
  \/ CkptWrite
  \/ AppendScannedSha
  \/ AddScannedSha
  \/ AddProcessedQuery
  \/ UpdateScanTime
  \/ KillStore

SpecStore == Init /\ [][NextStore]_vars

\* a scanner constructed under any FILE_PATH_BLACKLIST of the bound
InitBlacklist ==
  /\ file_path_blacklist \in {ParseBlacklist(e) : e \in BlacklistEnvs}
  /\ scanned_shas = {}
  /\ sha_file = <<>>
  /\ conn_db = [k \in Keys |-> NoRow]
  /\ key_files = [c \in FileClasses |-> ZeroKeys]
  /\ pc = "query"
  /\ qi = 1
  /\ results_left = 0
  /\ item = NoItem
  /\ api_keys = <<>>
  /\ validation_result = NoVerdict
  /\ last_return = "none"
  /\ last_probe = NoResponse
  /\ fetches = [s \in SHAs |-> 0]
  /\ faults = 0
  /\ item_probes = ZeroKeys
  /\ item_requests = ZeroKeys
  /\ item_rejected = {}

InitAnyBlacklist ==
  InitBlacklist /\ InitStore /\ InitSearch /\ InitValidators /\ InitExtract /\ InitMain /\ InitSinks
    /\ InitQuery

NextFilter ==
  \/ SearchGithubCode
  \/ NextQuery
  \/ ScanCompleted
  \/ ProcessSearchResult
  \/ ValidateAndSaveKey
  \/ FinishItem

\* one pass of run_scan under every FILE_PATH_BLACKLIST of the bound
SpecFilter == InitAnyBlacklist /\ [][NextFilter]_vars

\* the first load_checkpoint of the process has returned (it wrote both
\* files for the empty checkpoint) and the caller has filled the checkpoint
InitPending ==
  /\ checkpoint \in PendingCheckpoints
  /\ scanned_shas_file = Lines(ShaFileContent({}))
  /\ checkpoint_file = Json(ToDict(NewCheckpoint))
  /\ fm_pc = "idle"
  /\ fm_arg = NewCheckpoint
  /\ fm_ret = "start"
  /\ fm_failed = FALSE
  /\ fm_ops = 0
  /\ ever_persisted = {}
  /\ durable_at_kill = {}
  /\ shas_before = {}
  /\ ckpt_before = AbsentJson
  /\ fm_hist = "loaded"

InitAnyPending ==
  InitScan /\ InitPending /\ InitSearch /\ InitValidators /\ InitExtract /\ InitMain /\ InitSinks
    /\ InitQuery

NextPending ==
  \/ SaveCheckpoint
  \/ ShasOpen
  \/ ShasWrite
  \/ CkptOpen
  \/ CkptWrite
  \/ LoadCheckpoint
  \/ KillStore

\* save_checkpoint, load_checkpoint and kills on every filled checkpoint
SpecPending == InitAnyPending /\ [][NextPending]_vars

InitAnyProbe ==
  InitScan /\ InitStore /\ InitSearch /\ InitExtract /\ InitMain /\ InitSinks
    /\ InitQuery /\ InitProbe

NextValidators ==
  \/ ScannerValidateKey
  \/ StandaloneValidateKey

\* both validate_key methods on every probe result of the bound
SpecValidators == InitAnyProbe /\ [][NextValidators]_vars

NextSearch ==
  \/ StartSearch
  \/ SearchRequest

\* search_github_code called again and again
SpecSearch == Init /\ [][NextSearch]_vars

\* extract_api_keys is about to be called on any content
InitContent ==
  /\ content \in Contents
  /\ unique_keys = <<>>
  /\ ex_pc = "call"

NextExtract == ExtractApiKeysCall

\* extract_api_keys applied to every content of the bound
InitAnyContent == InitScan /\ InitStore /\ InitSearch /\ InitValidators /\ InitContent /\ InitMain /\ InitSinks /\ InitQuery

SpecExtract == InitAnyContent /\ [][NextExtract]_vars

\* the checkpoints the process can start with: none on disk, or a
\* checkpoint.json left by an earlier pass that names a processed query and a
\* scan time
LoadedCheckpoints ==
  {NewCheckpoint,
   [NewCheckpoint EXCEPT !.processed_queries = {"q1"}, !.last_scan_time = <<1>>]}

\* process start with a checkpoint on disk: the module global is loaded
InitLoaded ==
  /\ \E cp \in LoadedCheckpoints :
       /\ checkpoint = cp
       /\ checkpoint_file = IF cp = NewCheckpoint THEN AbsentJson ELSE Json(ToDict(cp))
       /\ ckpt_before = checkpoint_file
  /\ scanned_shas_file = AbsentLines
  /\ fm_pc = "idle"
  /\ fm_arg = NewCheckpoint
  /\ fm_ret = "start"
  /\ fm_failed = FALSE
  /\ fm_ops = 0
  /\ ever_persisted = {}
  /\ durable_at_kill = {}
  /\ shas_before = {}
  /\ fm_hist = "loaded"

\* the scanner started beside a loaded checkpoint
InitResume == InitScan /\ InitLoaded /\ InitSearch /\ InitValidators /\ InitExtract /\ InitMain /\ InitSinks /\ InitQuery

SpecResume == InitResume /\ [][Next]_vars

\* a process about to start in any environment of the bound
InitEnv ==
  /\ env_github_tokens \in TokenEnvs
  /\ env_date_range_days \in DateRangeEnvs
  /\ github_tokens = <<>>
  /\ date_range_days = 0
  /\ main_pc = "start"
  /\ main_qi = 0
  /\ main_requests = 0
  /\ main_error = "none"
  /\ exit_status = "running"

InitAnyEnv == InitScan /\ InitStore /\ InitSearch /\ InitValidators /\ InitExtract /\ InitEnv /\ InitSinks /\ InitQuery

NextMain ==
  \/ Construct
  \/ RunScanStart
  \/ RunScanQuery
  \/ RunScanEnd

\* main() in every environment of the bound
SpecMain == InitAnyEnv /\ [][NextMain]_vars

\* the two save calls about to run on any result, over any row the table
\* holds for its key, with or without a failing sink
InitSaveCalls ==
  /\ result \in Results
  /\ insert_ok \in BOOLEAN
  /\ open_fails \in {"none", "key_file", "detail_file"}
  /\ sink_pc = "call"
  /\ conn_db \in {[k \in Keys |-> IF k = result.api_key THEN r ELSE NoRow] : r \in Rows}
  /\ key_files = [c \in FileClasses |-> ZeroKeys]
  /\ scanned_shas = {}
  /\ sha_file = <<>>
  /\ file_path_blacklist = Blacklist
  /\ pc = "keys"
  /\ qi = 1
  /\ results_left = 1
  /\ item = NoItem
  /\ api_keys = <<>>
  /\ validation_result = NoVerdict
  /\ last_return = "none"
  /\ last_probe = NoResponse
  /\ fetches = [s \in SHAs |-> 0]
  /\ faults = 0
  /\ item_probes = ZeroKeys
  /\ item_requests = ZeroKeys
  /\ item_rejected = {}

InitAnySaveCalls == InitSaveCalls /\ InitStore /\ InitSearch /\ InitValidators /\ InitExtract /\ InitMain /\ InitQuery

NextSinks == SaveCalls

\* the save calls of validate_and_save_key on every result of the bound
SpecSinks == InitAnySaveCalls /\ [][NextSinks]_vars

\* a queries file with any two lines of the bound
InitQueryLines ==
  /\ query_line \in QueryLines
  /\ other_line \in QueryLines
  /\ query_key = <<>>
  /\ other_key = <<>>
  /\ rekeyed = <<>>
  /\ qk_pc = "file"

InitAnyQueryLines ==
  InitScan /\ InitStore /\ InitSearch /\ InitValidators /\ InitExtract /\ InitMain /\ InitSinks
    /\ InitQueryLines

NextQueries == LoadQueries

\* load_queries on every pair of lines of the bound
SpecQueries == InitAnyQueryLines /\ [][NextQueries]_vars

\* -------------------------------------------------------------- properties
\* steps of the scanner, recognised by what they change
IsProcessStep == pc = "items" /\ pc' \in {"items", "keys"}
                   /\ (results_left' # results_left \/ pc' = "keys")
IsValidateStep == pc = "keys" /\ pc' = "keys" /\ api_keys' # api_keys

\* the candidates of the item in progress that have been through validate_and_save_key
Validated == Range(ExtractApiKeys(MatchesOf(item.sha))) \ Range(api_keys)

\* C1: within one run no identifier has its content downloaded and its
\* candidates validated more than once, and an identifier whose processing
\* went through (download, extraction, validation, return) is in scanned_shas,
\* so that every later hit carrying it returns at the duplicate test.
C1_ProcessedAtMostOnce ==
  /\ \A s \in SHAs : fetches[s] <= 1
  /\ \A s \in SHAs :
       (fetches[s] = 1 /\ ~(pc = "keys" /\ item.sha = s)) => s \in scanned_shas

\* C1 witness: a hit for an identifier processed earlier in this run was skipped
C1_Witness ==
  /\ last_return = "sha_duplicate"
  /\ fetches[item.sha] = 1

\* C6: a hit whose identifier is in scanned_shas returns at the duplicate
\* test, whatever its path is: nothing is downloaded, validated or written.
C6_DuplicateSkippedFirst ==
  [][(IsProcessStep /\ item'.sha \in scanned_shas)
       => /\ last_return' = "sha_duplicate"
          /\ pc' = "items"
          /\ UNCHANGED <<scanned_shas, sha_file, fetches, conn_db, key_files>>]_vars

\* C6 witness: a skipped duplicate whose path is blacklisted as well
C6_Witness ==
  /\ last_return = "sha_duplicate"
  /\ ShouldSkipFile(file_path_blacklist, item.path)

\* C7: a probe answered 429 gives is_valid and rate_limited, and the call
\* writes nothing to the valid key and valid detail outputs; it writes the
\* key to the rate-limited key and detail outputs when no fault hits the call.
C7_RateLimitedOnly ==
  [][(IsValidateStep /\ last_probe'.kind = "http" /\ last_probe'.status = 429)
       => /\ validation_result'.is_valid
          /\ validation_result'.rate_limited
          /\ key_files'["valid_key"] = key_files["valid_key"]
          /\ key_files'["valid_key_detail"] = key_files["valid_key_detail"]
          /\ faults' = faults =>
               /\ key_files'["rate_limited_key"][Head(api_keys)]
                    = key_files["rate_limited_key"][Head(api_keys)] + 1
               /\ key_files'["rate_limited_key_detail"][Head(api_keys)]
                    = key_files["rate_limited_key_detail"][Head(api_keys)] + 1]_vars

\* C7 witness: a key answered 429 is in the rate-limited outputs and in no valid output
C7_Witness ==
  /\ pc = "keys"
  /\ last_probe.status = 429
  /\ \E k \in Validated :
       /\ key_files["rate_limited_key"][k] = 1
       /\ key_files["rate_limited_key_detail"][k] = 1
       /\ key_files["valid_key"][k] = 0
       /\ key_files["valid_key_detail"][k] = 0

\* the outcome classes of validate_key by their error_message
OutcomeOf(v) ==
  IF v.error_message # <<>> /\ v.error_message[1] = "HTTP" THEN "HTTP" ELSE v.error_message

\* C8: validate_key returns exactly one outcome per probe: 200 gives valid
\* and not rate-limited, 429 valid and rate-limited, 401, 403, any other
\* status, a timeout and a connection error give not valid and not
\* rate-limited, each with an outcome of its own; rate_limited implies is_valid.
C8_TotalMapping ==
  (pc = "keys" /\ last_probe # NoResponse) =>
    LET v == validation_result
        r == last_probe
    IN /\ ~v.raised
       /\ v.rate_limited => v.is_valid
       /\ (r.kind = "http" /\ r.status = 200) =>
            (v.is_valid /\ ~v.rate_limited /\ v.error_message = <<>>)
       /\ (r.kind = "http" /\ r.status = 429) =>
            (v.is_valid /\ v.rate_limited /\ v.error_message = <<"Rate limited">>)
       /\ (r.kind = "http" /\ r.status = 401) =>
            (~v.is_valid /\ ~v.rate_limited
               /\ v.error_message = <<"Unauthorized: Invalid API key">>)
       /\ (r.kind = "http" /\ r.status = 403) =>
            (~v.is_valid /\ ~v.rate_limited
               /\ v.error_message = <<"Forbidden: Access denied">>)
       /\ (r.kind = "http" /\ r.status \notin {200, 401, 403, 429}) =>
            (~v.is_valid /\ ~v.rate_limited /\ OutcomeOf(v) = "HTTP")
       /\ r.kind = "timeout" =>
            (~v.is_valid /\ ~v.rate_limited /\ v.error_message = <<"Request timeout">>)
       /\ r.kind = "connection_error" =>
            (~v.is_valid /\ ~v.rate_limited /\ v.error_message = <<"Request failed">>)

\* C9: while an item is processed each of its candidates is probed exactly
\* once when its turn in the key loop has come, no candidate before its turn,
\* and a candidate answered 401 or 403 gets no other vendor request.
C9_SingleProbe ==
  pc = "keys" =>
    \A k \in Keys :
      /\ item_probes[k] = (IF k \in Validated THEN 1 ELSE 0)
      /\ k \in item_rejected => item_requests[k] = 1

\* C9 witness: the key loop of an item with two candidates is over, one of
\* them was rejected and the other was recorded as valid
C9_Witness ==
  /\ pc = "keys"
  /\ api_keys = <<>>
  /\ Cardinality(Validated) = 2
  /\ item_rejected # {}
  /\ \E k \in Validated : item_requests[k] = 2

\* C10: a key that has been classified (it has a row in api_keys) is not
\* probed again, also not when it is extracted from another artifact.
C10_NoReprobe ==
  [][(IsValidateStep /\ item_probes'[Head(api_keys)] = item_probes[Head(api_keys)] + 1)
       => ~conn_db[Head(api_keys)].present]_vars

\* the identifiers a reader finds in the store
StoredShas == LoadScannedShas(scanned_shas_file)

\* C2: the persisted identifier set only grows: when an operation of the
\* store has returned, every identifier that was in the file after an earlier
\* operation is still in it.
C2_PersistedOnlyGrows ==
  fm_pc = "idle" => ever_persisted \subseteq StoredShas

\* C3: after a kill at any point, also inside a checkpoint write, the
\* checkpoint loaded at restart has every identifier that was in the store
\* before the operation that was killed.
C3_DurableAfterKill ==
  [][(/\ fm_pc' = "idle"
      /\ \/ fm_pc = "dead"
         \/ fm_pc \in {"ckpt_open", "ckpt_write"} /\ fm_ret = "start")
       => durable_at_kill \subseteq checkpoint'.scanned_shas]_vars

\* C4: at every instant of a save_checkpoint a reader finds either the
\* complete previous checkpoint or the complete new one in the two files.
C4_AtomicSave ==
  fm_pc \in {"shas_write", "ckpt_open", "ckpt_write"} =>
    \/ /\ StoredShas = shas_before
       /\ checkpoint_file = ckpt_before
    \/ /\ StoredShas = fm_arg.scanned_shas
       /\ checkpoint_file = Json(ToDict(fm_arg))

\* C5: the checkpoint loaded after a save_checkpoint(cp) that met no I/O
\* error has the scanned identifiers and the processed queries of cp.
C5_RoundTrip ==
  fm_hist = "saved_loaded" =>
    /\ checkpoint.scanned_shas = fm_arg.scanned_shas
    /\ checkpoint.processed_queries = fm_arg.processed_queries

\* C5 witness: a checkpoint with an identifier and a query was saved and loaded
C5_Witness ==
  /\ fm_hist = "saved_loaded"
  /\ fm_arg.scanned_shas # {}
  /\ fm_arg.processed_queries # {}

\* C11: a configured query that is in the checkpoint's processed_queries is
\* skipped: run_scan's turn for it never leads to items being processed.
C11_ProcessedQuerySkipped ==
  [][(/\ pc = "query"
      /\ qi <= Len(queries)
      /\ queries[qi] \in checkpoint.processed_queries)
       => pc' # "items"]_vars

\* run_scan leaves a query: its search returned nothing or its items are exhausted
IsQueryDoneStep == pc \in {"query", "items"} /\ pc' = "query" /\ qi' = qi + 1

\* C12: when run_scan leaves a query, every identifier whose content was
\* downloaded is in scanned_shas, no key is in the valid key output more than
\* once, and the query is in the checkpoint's processed_queries.
C12_FullPassRecorded ==
  [][IsQueryDoneStep
       => /\ \A s \in SHAs : fetches'[s] > 0 => s \in scanned_shas'
          /\ \A k \in Keys : key_files'["valid_key"][k] <= 1
          /\ queries[qi] \in checkpoint'.processed_queries]_vars

\* C13: when the download of an item returns no content, the identifier is
\* not marked (neither in scanned_shas nor in the identifier file), nothing is
\* probed or written, and the same hit arriving next is not taken for a
\* duplicate: it is downloaded again.
C13_AbsentNotMarked ==
  [][/\ (IsProcessStep /\ pc' = "items" /\ last_return' = "no_content")
          => /\ UNCHANGED <<scanned_shas, sha_file, fetches, conn_db, key_files>>
             /\ item'.sha \notin scanned_shas'
     /\ (IsProcessStep /\ last_return = "no_content" /\ item' = item)
          => \/ last_return' \in {"no_content", "error"}
             \/ fetches'[item.sha] = fetches[item.sha] + 1]_vars

\* C13 witness: a download returned nothing, the identifier is unmarked and
\* the query has more hits to come
C13_Witness ==
  /\ pc = "items"
  /\ last_return = "no_content"
  /\ results_left > 0
  /\ item.sha \notin scanned_shas

C15_InterruptFinishesItem ==
  [][(pc # "interrupted" /\ pc' = "interrupted") => pc # "keys"]_vars

\* C16: the scanner never terminates of its own accord: after the last
\* configured query it starts another pass.
C16_NeverTerminates == pc # "done"

\* C17: a page request answered 403 or 429 is followed by a request for the
\* same page (the loop goes on, the page number and the results are as they
\* were); a page request answered 422 ends the search of the query.
C17_SearchBackoff ==
  [][sg_pc = "loop"
       => /\ response_status' \in {403, 429}
               => (sg_pc' = "loop" /\ page' = page /\ results_len' = results_len)
          /\ response_status' = 422 => sg_pc' = "returned"]_vars

\* piece i of content c is immediately followed by a placeholder marker
FollowedByMarker(c, i) == i < Len(c) /\ c[i + 1] \in Markers

\* the key pieces of c that extract_api_keys keeps: long enough
KeptPositions(c) ==
  {i \in 1..Len(c) : IsKeyShaped(c[i]) /\ KeyLen(c[i]) >= MinKeyLen}

\* C18: a key-shaped match immediately followed by a placeholder marker is
\* discarded: every candidate returned has an occurrence that no marker
\* follows, and every match that no marker follows is a candidate.
C18_PlaceholderSuppressed ==
  ex_pc = "returned" =>
    /\ \A k \in Range(unique_keys) :
         \E i \in KeptPositions(content) :
           content[i] = k /\ ~FollowedByMarker(content, i)
    /\ \A i \in KeptPositions(content) :
         ~FollowedByMarker(content, i) => content[i] \in Range(unique_keys)

\* where k occurs first in c
FirstIndex(c, k) == CHOOSE i \in 1..Len(c) : c[i] = k /\ \A j \in 1..(i - 1) : c[j] # k

\* C19: extract_api_keys returns each distinct key string of the content
\* (of the accepted length) exactly once, in the order of first occurrence.
C19_DistinctInOrder ==
  ex_pc = "returned" =>
    /\ Range(unique_keys) = {content[i] : i \in KeptPositions(content)}
    /\ \A i, j \in 1..Len(unique_keys) :
         i < j => /\ unique_keys[i] # unique_keys[j]
                  /\ FirstIndex(content, unique_keys[i])
                       < FirstIndex(content, unique_keys[j])

\* C19 witness: a key occurring twice around another one is returned once, first
C19_Witness ==
  /\ ex_pc = "returned"
  /\ content = <<KeyA, KeyB, KeyA>>
  /\ unique_keys = <<KeyA, KeyB>>

\* C20: when the checkpoint has a last scan time and the repository of a hit
\* was pushed at or before it, the hit is skipped: nothing is downloaded,
\* validated, marked or written for it.
C20_TimeFilter ==
  [][(/\ IsProcessStep
      /\ checkpoint.last_scan_time # NoTime
      /\ PushedAt(item') <= checkpoint.last_scan_time[1])
       => /\ pc' = "items"
          /\ UNCHANGED <<fetches, scanned_shas, sha_file, conn_db, key_files>>]_vars


\* the lowercased path of artifact `it` contains a blacklist substring
PathListed(it) ==
  \E i \in 1..Len(file_path_blacklist) :
    Contains(Lower(it.path), file_path_blacklist[i])

\* the returns of process_search_result that lie behind its path test
PastPathTest == {"no_content", "no_keys", "error", "valid_count"}

\* C21: an artifact that reaches the path test (its identifier was not in
\* scanned_shas) returns there exactly when its lowercased path contains a
\* blacklist substring: an artifact returned as blacklisted has such a path,
\* whatever the case of its letters, and an artifact that went on to the
\* download, to the key loop or to a later return has none.
C21_PathFilter ==
  /\ (pc = "items" /\ last_return = "blacklisted") => PathListed(item)
  /\ (pc = "keys" \/ (pc = "items" /\ last_return \in PastPathTest))
       => ~PathListed(item)

\* C21 witness: a path listed only through its upper-case letter was skipped
\* by the path test, its identifier not being a duplicate
C21_Witness ==
  /\ pc = "items"
  /\ last_return = "blacklisted"
  /\ item.path = <<"D", "x">>
  /\ item.sha \notin scanned_shas

\* C22: a call of process_search_result on an artifact whose identifier is
\* in scanned_shas or whose path is blacklisted returns at one of the two
\* tests and changes nothing: scanned_shas, the identifier file, the
\* database and the output files are as before, no content is downloaded
\* and no probe or other vendor request is sent.
C22_SkipHasNoEffect ==
  [][(IsProcessStep /\ (item'.sha \in scanned_shas \/ PathListed(item')))
       => /\ pc' = "items"
          /\ last_return' \in {"sha_duplicate", "blacklisted"}
          /\ UNCHANGED <<scanned_shas, sha_file, conn_db, key_files, fetches, faults>>
          /\ item_probes' = ZeroKeys
          /\ item_requests' = ZeroKeys
          /\ last_probe' = NoResponse]_vars

\* C22 witness: an artifact was skipped at the path test in a run that
\* already holds scanned identifiers, a database row and an output line
C22_Witness ==
  /\ pc = "items"
  /\ last_return = "blacklisted"
  /\ scanned_shas # {}
  /\ sha_file # <<>>
  /\ \E k \in Keys : conn_db[k].present /\ key_files["valid_key"][k] > 0

\* C23: with no GitHub token configured the construction of the scanner
\* fails and the process exits with status 1 before any request is sent, and
\* no error of the configuration ends the process once the query loop of
\* run_scan has been entered.
C23_ConfigFatalAtStartupOnly ==
  /\ StripTokens(env_github_tokens) = <<>> =>
       /\ main_pc \in {"start", "exited"}
       /\ main_requests = 0
       /\ main_pc = "exited" => exit_status = "exit 1"
  /\ (main_pc = "exited" /\ main_error # "none") => main_qi = 0

\* C24: a failed write of an identifier leaves the identifier in
\* scanned_shas and the scan running, and the next write that succeeds
\* leaves the identifier file holding every identifier of scanned_shas, the
\* one whose write failed included.
C24_FailedWriteRecovered ==
  [][/\ (pc \in {"items", "keys"} /\ faults' > faults /\ scanned_shas' # scanned_shas)
          => (pc' = "items" /\ sha_file' = sha_file)
     /\ Len(sha_file') > Len(sha_file)
          => scanned_shas' \subseteq LoadScannedShasScanner(sha_file')]_vars

\* the two output files of the class of result r hold its key once
InFiles(r) ==
  LET cls == IF r.rate_limited THEN <<"rate_limited_key", "rate_limited_key_detail">>
             ELSE <<"valid_key", "valid_key_detail">>
  IN key_files[cls[1]][r.api_key] = 1 /\ key_files[cls[2]][r.api_key] = 1

\* the table holds the row of result r
InDatabase(r) ==
  conn_db[r.api_key] = [present |-> TRUE, is_valid |-> r.is_valid,
                        rate_limited |-> r.rate_limited]

C26_TransientStaysRetryable ==
  [][(/\ pc = "keys"
      /\ api_keys = <<>>
      /\ last_probe.kind \in {"timeout", "connection_error"}
      /\ pc' = "items")
       => item.sha \notin scanned_shas']_vars

\* the number of times token t occurs in a token list
Occurrences(tokens, t) == Cardinality({i \in 1..Len(tokens) : tokens[i] = t})

\* two lines that hold the same tokens, each as often as the other, separated
\* by single blanks: they differ in the order of their tokens at most
SameTokens(l1, l2) ==
  /\ l1 = Join(Split(l1))
  /\ l2 = Join(Split(l2))
  /\ \A t \in Range(Split(l1)) \cup Range(Split(l2)) :
       Occurrences(Split(l1), t) = Occurrences(Split(l2), t)

\* C27: two configured queries that differ only in the order of their
\* tokens are given the same string, the key under which a processed query
\* would be recorded.
C27_TokenOrderIrrelevant ==
  (qk_pc = "loaded" /\ SameTokens(query_line, other_line)) => query_key = other_key

CandidatesOf(s) == Range(ExtractApiKeys(MatchesOf(s)))

C30_LoadReadOnly ==
  /\ (fm_ret \in {"load", "start"}
        /\ fm_pc \in {"shas_open", "shas_write", "ckpt_open", "ckpt_write"})
       => StoredShas = shas_before
  /\ (fm_pc = "idle" /\ fm_hist \in {"loaded", "saved_loaded"})
       => checkpoint.scanned_shas = StoredShas

\* C31: a call of search_github_code sends a bounded number of page
\* requests, one for each of its max_pages pages at most, whatever the
\* answers are, and then returns.
C31_SearchTerminates ==
  requests <= max_pages

\* the matches of list r lie in page order: those of page 1 first, no page
\* left out, every page before the last one full
InPageOrder(r) ==
  /\ \A i \in 1..Len(r) - 1 : r[i] <= r[i + 1]
  /\ r # <<>> => r[1] = 1
  /\ \A i \in 1..Len(r) :
       r[i] < r[Len(r)] => Cardinality({j \in 1..Len(r) : r[j] = r[i]}) = per_page
  /\ \A i \in 1..Len(r) - 1 : r[i + 1] <= r[i] + 1

\* C32: inside a call the page number moves by one, and only behind a 200
\* answer with a full page; no page behind max_pages is requested; an empty
\* or short page ends the call; the list returned holds the pages received
\* in page order, at most max_pages * per_page matches.
C32_PaginationBounded ==
  [][sg_pc = "loop" =>
       /\ page <= max_pages
       /\ page' # page =>
            /\ page' = page + 1
            /\ response_status' = 200
            /\ Len(results') = Len(results) + per_page
       /\ (response_status' = 200 /\ Len(results') < Len(results) + per_page)
            => sg_pc' = "returned"
       /\ results' # results => \A i \in Len(results) + 1..Len(results') : results'[i] = page
       /\ SubSeq(results', 1, Len(results)) = results
       /\ InPageOrder(results')
       /\ Len(results') <= max_pages * per_page
       /\ results_len' = Len(results')]_vars

\* C32 witness: the call returned behind the last page, all pages full
C32_Witness ==
  /\ sg_pc = "returned"
  /\ page = max_pages + 1
  /\ Len(results) = max_pages * per_page

C34_EmptyItemSkipsNothing ==
  (pc = "items" /\ last_return = "blacklisted") =>
    \E i \in 1..Len(file_path_blacklist) :
      /\ file_path_blacklist[i] # <<>>
      /\ Contains(Lower(item.path), file_path_blacklist[i])

\* the output classes of a verdict: the valid pair, the rate-limited pair, none
ClassesOf(v) ==
  IF v.raised THEN {}
  ELSE IF v.is_valid /\ ~v.rate_limited THEN {"valid_key", "valid_key_detail"}
  ELSE IF v.rate_limited THEN {"rate_limited_key", "rate_limited_key_detail"}
  ELSE {}

\* C35: the key and detail files of a run get a line only in a call of
\* validate_and_save_key whose probe was answered 200 or 429, only by one
\* more line for the key probed, and only in the files of the one class of
\* its verdict; a probe answered 401, 403 or any other status, a timeout, a
\* connection error and a key that was not sent write no line.
C35_FilesOnlyForValidOrLimited ==
  [][(\E c \in FileClasses, j \in Keys : key_files'[c][j] > key_files[c][j]) =>
       /\ IsValidateStep
       /\ LET k == Head(api_keys)
              v == validation_result'
              changed == {c \in FileClasses : key_files'[c] # key_files[c]}
          IN /\ last_probe'.kind = "http"
             /\ last_probe'.status \in {200, 429}
             /\ v.is_valid
             /\ changed \subseteq ClassesOf(v)
             /\ \A c \in changed :
                  key_files'[c] = [key_files[c] EXCEPT ![k] = @ + 1]]_vars

\* C35 witness: of the two candidates of an item one was answered 403 and is
\* in no file, the other one was answered 200 and is in the valid pair only
C35_Witness ==
  /\ pc = "keys"
  /\ api_keys = <<>>
  /\ last_probe.kind = "http"
  /\ last_probe.status = 403
  /\ \E k \in Validated, j \in Validated :
       /\ \A c \in FileClasses : key_files[c][k] = 0
       /\ key_files["valid_key"][j] = 1
       /\ key_files["valid_key_detail"][j] = 1
       /\ key_files["rate_limited_key"][j] = 0
       /\ key_files["rate_limited_key_detail"][j] = 0
       /\ conn_db[k].present /\ ~conn_db[k].is_valid

\* C36: table api_keys holds one row per key at most (conn_db is keyed by
\* api_key, the UNIQUE column), and when validate_key has returned its
\* verdict on a key, the row the key has behind that call of
\* validate_and_save_key carries the is_valid and rate_limited of that verdict.
C36_RowHasLatestVerdict ==
  [][(IsValidateStep /\ ~validation_result'.raised) =>
       LET k == Head(api_keys)
           v == validation_result'
       IN conn_db'[k].present =>
            /\ conn_db'[k].is_valid = v.is_valid
            /\ conn_db'[k].rate_limited = v.rate_limited]_vars

\* C37: the checkpoint loaded after a save_checkpoint(cp) that met no I/O
\* error, in the same process or after a kill and restart, has the
\* wait_send_balancer set, the wait_send_gpt_load set and the last_scan_time
\* of cp.
C37_PendingRoundTrip ==
  fm_hist = "saved_loaded" =>
    /\ checkpoint.wait_send_balancer = fm_arg.wait_send_balancer
    /\ checkpoint.wait_send_gpt_load = fm_arg.wait_send_gpt_load
    /\ checkpoint.last_scan_time = fm_arg.last_scan_time

\* C37 witness: a checkpoint with a scan time and different keys waiting for
\* the two sinks was saved, the process was killed, and the restart loaded it
C37_Witness ==
  /\ fm_hist = "saved_loaded"
  /\ durable_at_kill # {}
  /\ checkpoint.wait_send_balancer = {KeyA}
  /\ checkpoint.wait_send_gpt_load = {KeyA, KeyB}
  /\ checkpoint.last_scan_time # NoTime

\* C38: on the same probe result (any status, a timeout, a connection
\* error, an undecodable body) the validate_key of app/hajimi_king.py and the
\* validate_key of app/siliconflow_validator.py give the same is_valid, or
\* both raise; for a key without the sk- prefix both give is_valid false and
\* neither sends a request.
C38_ValidatorsAgree ==
  called = {"scanner", "standalone"} =>
    /\ scanner_verdict.raised = standalone_verdict.raised
    /\ scanner_verdict.is_valid = standalone_verdict.is_valid
    /\ scanner_verdict.sent = standalone_verdict.sent
    /\ probe_key[1] # "sk-" =>
         (~scanner_verdict.sent /\ ~scanner_verdict.is_valid /\ ~scanner_verdict.raised)

\* C38 witness: both validators gave their verdict on a 403 answer, for
\* which only one of them has a branch
C38_Witness ==
  /\ called = {"scanner", "standalone"}
  /\ probe_response.kind = "http"
  /\ probe_response.status = 403
  /\ probe_key = KeyA
  /\ scanner_verdict.error_message # standalone_verdict.error_message
  /\ ~scanner_verdict.is_valid
====
